---- MODULE Spec2Model ----
(***************************************************************************)
(* Jobard-Lefer streamline placement of functions/s111_to_streamlines.py.  *)
(*                                                                         *)
(* Geometry.  The source works on a sphere in double precision.  The model *)
(* works on the integer plane: a Point is a pair of integers, the geodesic *)
(* distance is the Euclidean distance (compared through its square), a     *)
(* course is a number of quarter turns clockwise from north (0 = north,    *)
(* 1 = east, 2 = south, 3 = west) and positionFromDistanceCourse moves a   *)
(* point by a signed distance along a course.  One length unit is 1/30 of  *)
(* dSep for a grid of 12 x 16 units, so that density = 20, dSep = 30,      *)
(* dTest = 15 and one transport sub-step = 6 are all integers.  Speeds are *)
(* counted in units of minMag (1e-4).                                      *)
(***************************************************************************)
EXTENDS Integers, Sequences, FiniteSets, TLC

(* ---------------------------------------------------------------------- *)
(* Bounds of the model: the size of the sample array of the fields tried.  *)
(* ---------------------------------------------------------------------- *)
NumLon == 21
NumLat == 16
\* ... and of the small field, fewer than dSepMaxFactor grid cells wide
SmallLon == 7
SmallLat == 5

(* ---------------------------------------------------------------------- *)
(* Program constants (JobardLefer.__init__).                               *)
(* ---------------------------------------------------------------------- *)
iSteps == 5
minMag == 1
separationFactor == <<3, 2>>      \* 1.5  as numerator, denominator
testFactor == <<1, 2>>            \* 0.5
dSepMaxFactor == <<15, 4>>        \* 3.75

None == -1                        \* an absent index (Python None)

(* ---------------------------------------------------------------------- *)
(* Arithmetic helpers.                                                     *)
(* ---------------------------------------------------------------------- *)
Abs(a) == IF a < 0 THEN -a ELSE a
Min(a, b) == IF a <= b THEN a ELSE b
Max(a, b) == IF a >= b THEN a ELSE b

SetMin(S) == CHOOSE a \in S : \A b \in S : a <= b
SetMax(S) == CHOOSE a \in S : \A b \in S : a >= b

\* math.floor(a / b) for b # 0
FloorDiv(a, b) == IF b > 0 THEN a \div b ELSE (-a) \div (-b)
\* math.ceil(a / b) for b # 0
CeilDiv(a, b) == -FloorDiv(-a, b)
\* numerator of a/b - floor(a/b) over the denominator Abs(b)
FracNum(a, b) == IF b > 0 THEN a % b ELSE (-a) % (-b)

\* math.sqrt on the perfect squares met here (rounded down otherwise)
Sqrt(n) == CHOOSE r \in 0..n : r * r <= n /\ (r + 1) * (r + 1) > n

RECURSIVE Pow2(_)
Pow2(k) == IF k <= 0 THEN 1 ELSE 2 * Pow2(k - 1)

RECURSIVE FloorLog2Up(_, _, _)
FloorLog2Up(num, den, k) ==
    IF Pow2(k + 1) * den <= num THEN FloorLog2Up(num, den, k + 1) ELSE k
RECURSIVE FloorLog2Down(_, _, _)
FloorLog2Down(num, den, k) ==
    IF den <= num * Pow2(k) THEN -k ELSE FloorLog2Down(num, den, k + 1)
\* math.floor(math.log(num / den, 2)) for num, den > 0
FloorLog2(num, den) ==
    IF num >= den THEN FloorLog2Up(num, den, 0) ELSE FloorLog2Down(num, den, 1)

(* ---------------------------------------------------------------------- *)
(* Geo primitives.                                                         *)
(* ---------------------------------------------------------------------- *)
Point(x, y) == [x |-> x, y |-> y]

DistSq(p1, p2) == (p2.x - p1.x) * (p2.x - p1.x) + (p2.y - p1.y) * (p2.y - p1.y)
\* distanceCourseFromRad(p1, p2)["distance"] < sep
Closer(p1, p2, sep) == DistSq(p1, p2) < sep * sep
distanceCourseFromRad(p1, p2) == Sqrt(DistSq(p1, p2))

CourseX(c) == IF c % 4 = 1 THEN 1 ELSE IF c % 4 = 3 THEN -1 ELSE 0
CourseY(c) == IF c % 4 = 0 THEN 1 ELSE IF c % 4 = 2 THEN -1 ELSE 0
positionFromDistanceCourse(p, distance, course) ==
    Point(p.x + distance * CourseX(course), p.y + distance * CourseY(course))

\* Bounds: <<>> when empty, otherwise <<[min |-> Point, max |-> Point]>>
EmptyBounds == <<>>
BoundsAdd(b, p) ==
    IF b = <<>> THEN << [min |-> Point(p.x, p.y), max |-> Point(p.x, p.y)] >>
    ELSE << [min |-> Point(Min(b[1].min.x, p.x), Min(b[1].min.y, p.y)),
             max |-> Point(Max(b[1].max.x, p.x), Max(b[1].max.y, p.y))] >>
\* b after b.add(p) for the points p of ps
BoundsAddAll(b, ps) ==
    IF ps = <<>> THEN b
    ELSE LET xs == {ps[n].x : n \in 1..Len(ps)} \cup {b[n].min.x : n \in 1..Len(b)}
                   \cup {b[n].max.x : n \in 1..Len(b)}
             ys == {ps[n].y : n \in 1..Len(ps)} \cup {b[n].min.y : n \in 1..Len(b)}
                   \cup {b[n].max.y : n \in 1..Len(b)}
         IN  << [min |-> Point(SetMin(xs), SetMin(ys)),
                 max |-> Point(SetMax(xs), SetMax(ys))] >>
BoundsContains(b, p) ==
    /\ b # <<>>
    /\ p.x >= b[1].min.x /\ p.x <= b[1].max.x
    /\ p.y >= b[1].min.y /\ p.y <= b[1].max.y
BoundsSize(b) == Point(b[1].max.x - b[1].min.x, b[1].max.y - b[1].min.y)

(* ---------------------------------------------------------------------- *)
(* Flow values.  A Flow is kept by its Cartesian components <<u, v>>       *)
(* (u = sin(direction) * magnitude, v = cos(direction) * magnitude), the   *)
(* form interpolate works on; NoFlow is Python's None.  A flow sampled at  *)
(* a point carries the scale factor |dx| * |dy| of the two interpolations. *)
(* ---------------------------------------------------------------------- *)
NoFlow == <<>>
Flow(mag, course) == <<mag * CourseX(course), mag * CourseY(course)>>

\* interpolate that has no value as soon as one side has none
interpolateBothNeeded(v1, v2, n, d) ==
    IF v1 = NoFlow \/ v2 = NoFlow THEN NoFlow
    ELSE <<v1[1] * (d - n) + v2[1] * n, v1[2] * (d - n) + v2[2] * n>>

\* interpolate(v1, v2, p) with the weight p = n / d; the result is scaled by d
interpolate(v1, v2, n, d) ==
    IF v1 = NoFlow /\ v2 = NoFlow THEN NoFlow
    ELSE IF v1 = NoFlow THEN <<v2[1] * n, v2[2] * n>>
    ELSE IF v2 = NoFlow THEN <<v1[1] * (d - n), v1[2] * (d - n)>>
    ELSE <<v1[1] * (d - n) + v2[1] * n, v1[2] * (d - n) + v2[2] * n>>

\* math.atan2(u, v) in quarter turns, rounded to the nearest one
\* (atan2(0, 0) = 0, north)
Atan2(u, v) ==
    IF u = 0 /\ v = 0 THEN 0
    ELSE IF Abs(u) > Abs(v) THEN (IF u > 0 THEN 1 ELSE 3)
    ELSE (IF v > 0 THEN 0 ELSE 2)

(* ---------------------------------------------------------------------- *)
(* The sample arrays tried: data[y, x] = <<speed, direction in degrees>>.  *)
(* ---------------------------------------------------------------------- *)
\* the direction of a clockwise circulation around the middle of the array,
\* at the offset (dx, dy) from it: east above, south to the right, west
\* below, north to the left
VortexDirection(dx, dy) ==
    IF Abs(dy) * 16 >= Abs(dx) * 12
    THEN (IF dy > 0 THEN 90 ELSE 270)
    ELSE (IF dx > 0 THEN 180 ELSE 0)

Kinds == {"east", "empty", "lowmag", "still", "confluence", "vortex", "corner"}
Sample(kind, x, y) ==
    CASE kind = "east" -> <<10, 90>>
      [] kind = "empty" -> <<-1, 0>>
      [] kind = "lowmag" -> <<minMag, 90>>
      [] kind = "still" -> <<0, 90>>
      [] kind = "confluence" -> IF y >= NumLat - 5 THEN <<10, 180>> ELSE <<10, 90>>
      [] kind = "vortex" -> <<10, VortexDirection(2 * x - (NumLon - 1),
                                                  2 * y - (NumLat - 1))>>
      [] kind = "corner" -> IF x >= NumLon - 6 /\ y >= NumLat - 5 THEN <<10, 90>> ELSE <<0, 90>>
      [] kind = "masked" -> IF x % 3 = 2 /\ y % 3 = 2 THEN <<10, 90>> ELSE <<-1, 0>>

\* Metadata of a NumLon x NumLat array of 12 x 16 cells with its south-west
\* corner at the origin, a small variant and three inconsistent variants of it.
GoodMeta ==
    [gridSpacingLongitudinal |-> 12, gridSpacingLatitudinal |-> 16,
     westBoundLongitude |-> 0, eastBoundLongitude |-> (NumLon - 1) * 12,
     southBoundLatitude |-> 0, northBoundLatitude |-> (NumLat - 1) * 16,
     numPointsLongitudinal |-> NumLon, numPointsLatitudinal |-> NumLat]
SmallMeta ==
    [GoodMeta EXCEPT !.eastBoundLongitude = (SmallLon - 1) * 12,
                     !.northBoundLatitude = (SmallLat - 1) * 16,
                     !.numPointsLongitudinal = SmallLon,
                     !.numPointsLatitudinal = SmallLat]
\* the same grid with the equator through its middle
StraddleMeta ==
    [GoodMeta EXCEPT !.southBoundLatitude = 0 - (NumLat \div 2) * 16,
                     !.northBoundLatitude = (NumLat - 1 - NumLat \div 2) * 16]
BadMetas ==
    { [GoodMeta EXCEPT !.numPointsLongitudinal = 0],
      [GoodMeta EXCEPT !.gridSpacingLongitudinal = -12],
      [GoodMeta EXCEPT !.westBoundLongitude = (NumLon - 1) * 12,
                       !.eastBoundLongitude = 0] }
Inconsistent(m) ==
    \/ m.numPointsLongitudinal <= 0 \/ m.numPointsLatitudinal <= 0
    \/ m.gridSpacingLongitudinal < 0 \/ m.gridSpacingLatitudinal < 0
    \/ m.southBoundLatitude > m.northBoundLatitude
    \/ m.westBoundLongitude > m.eastBoundLongitude

(* ---------------------------------------------------------------------- *)
(* FlowField.                                                              *)
(* ---------------------------------------------------------------------- *)
FlowFieldInit(data, metadata) ==
    LET minPoint == Point(metadata.westBoundLongitude, metadata.southBoundLatitude)
        maxPoint == Point(metadata.eastBoundLongitude, metadata.northBoundLatitude)
    IN  [data |-> data, metadata |-> metadata,
         dx |-> metadata.gridSpacingLongitudinal,
         dy |-> metadata.gridSpacingLatitudinal,
         minPoint |-> minPoint, maxPoint |-> maxPoint,
         bounds |-> BoundsAdd(BoundsAdd(EmptyBounds, minPoint), maxPoint)]

\* getFlowAtIndex that takes a negative speed for a flow
getFlowAtIndexAnySpeed(f, x, y) ==
    IF /\ x >= 0 /\ x < f.metadata.numPointsLongitudinal
       /\ y >= 0 /\ y < f.metadata.numPointsLatitudinal
    THEN LET s == Sample(f.data, x, y) IN Flow(s[1], s[2] \div 90)
    ELSE NoFlow

getFlowAtIndex(f, x, y) ==
    IF /\ x >= 0 /\ x < f.metadata.numPointsLongitudinal
       /\ y >= 0 /\ y < f.metadata.numPointsLatitudinal
    THEN LET s == Sample(f.data, x, y)
         IN  IF s[1] >= 0 THEN Flow(s[1], s[2] \div 90) ELSE NoFlow
    ELSE NoFlow

getFlow(f, p) ==
    IF BoundsContains(f.bounds, p)
    THEN LET ax == p.x - f.minPoint.x
             ay == p.y - f.minPoint.y
             x1 == FloorDiv(ax, f.dx)
             x2 == CeilDiv(ax, f.dx)
             y1 == FloorDiv(ay, f.dy)
             y2 == CeilDiv(ay, f.dy)
             px == FracNum(ax, f.dx)
             py == FracNum(ay, f.dy)
         IN  CHOOSE ret \in
               { interpolate(interpolate(f11, f12, py, Abs(f.dy)),
                             interpolate(f21, f22, py, Abs(f.dy)),
                             px, Abs(f.dx)) :
                 <<f11, f12, f21, f22>> \in
                   { <<getFlowAtIndex(f, x1, y1), getFlowAtIndex(f, x1, y2),
                       getFlowAtIndex(f, x2, y1), getFlowAtIndex(f, x2, y2)>> } } : TRUE
    ELSE NoFlow

pointHasValue(f, p) == getFlow(f, p) # NoFlow

\* p.flow.magnitude >= m
MagnitudeAtLeast(f, p, m) ==
    LET fl == getFlow(f, p)
        scale == Abs(f.dx) * Abs(f.dy)
    IN  fl[1] * fl[1] + fl[2] * fl[2] >= (m * scale) * (m * scale)

\* p.flow.magnitude > m, for a point that has a flow
MagnitudeAbove(f, p, m) ==
    LET fl == getFlow(f, p)
        scale == Abs(f.dx) * Abs(f.dy)
    IN  fl[1] * fl[1] + fl[2] * fl[2] > (m * scale) * (m * scale)

\* p.flow.direction, for a point that has a flow
Direction(f, p) == LET fl == getFlow(f, p) IN Atan2(fl[1], fl[2])

getDensity(f) ==
    LET maxLat == Max(Abs(f.bounds[1].min.y), Abs(f.bounds[1].max.y))
    IN  distanceCourseFromRad(Point(0, maxLat - f.dy), Point(f.dx, maxLat))

\* self.pointHasValue(p) and p.flow.magnitude > m
HasFlowAbove(f, p, m) == pointHasValue(f, p) /\ MagnitudeAbove(f, p, m)

\* transport's loop.  options: [distance, steps, minimumMagnitude]; ret is
\* the list built so far and lastPoint the point the next pass starts from.
RECURSIVE transportLoop(_, _, _, _)
\* ret.append(pi); lastPoint = pi
transportAppend(f, options, ret, pi) == transportLoop(f, pi, options, Append(ret, pi))
\* the second half of a pass, with pMid computed
transportFromMid(f, lastPoint, options, ret, pMid) ==
    IF HasFlowAbove(f, pMid, options.minimumMagnitude)
    THEN CHOOSE r \in { transportAppend(f, options, ret, pi) :
                        pi \in { positionFromDistanceCourse(
                                    lastPoint, options.distance \div options.steps,
                                    Direction(f, pMid)) } } : TRUE
    ELSE ret
\* a loop that returns the empty list when the current point fails
transportLoopEmpty(f, lastPoint, options, ret) ==
    IF Len(ret) >= options.steps THEN ret
    ELSE IF HasFlowAbove(f, lastPoint, options.minimumMagnitude)
    THEN CHOOSE r \in { transportFromMid(f, lastPoint, options, ret, pMid) :
                        pMid \in { positionFromDistanceCourse(
                                      lastPoint,
                                      (options.distance \div options.steps) \div 2,
                                      Direction(f, lastPoint)) } } : TRUE
    ELSE <<>>
transportLoop(f, lastPoint, options, ret) ==
    IF Len(ret) >= options.steps THEN ret
    ELSE IF HasFlowAbove(f, lastPoint, options.minimumMagnitude)
    THEN CHOOSE r \in { transportFromMid(f, lastPoint, options, ret, pMid) :
                        pMid \in { positionFromDistanceCourse(
                                      lastPoint,
                                      (options.distance \div options.steps) \div 2,
                                      Direction(f, lastPoint)) } } : TRUE
    ELSE ret
transport(f, startPoint, options) == transportLoop(f, startPoint, options, <<>>)

(* ---------------------------------------------------------------------- *)
(* State.  Indexes (seed_index, index, sli, pn, ...) are 0-based as in the *)
(* source; At reads a list at a 0-based index.                             *)
(* ---------------------------------------------------------------------- *)
VARIABLES
    pc,                          \* position in process_one / generate
    field,                       \* <<>> or <<the FlowField constructed>>
    dSep, dTest,                 \* JobardLefer.dSep, .dTest
    pointsGridCellSpacing,       \* Point(dx, dy)
    minLevel,
    pointsGrid,                  \* row yi -> column xi -> list of entries
    pointsGridCellWidthFactors,  \* row yi -> p1.x (its quotient by the cell
                                 \* spacing is the factor)
    streamlines,                 \* the accepted streamlines
    seedCache, keptSeeds,
    level, levelFactor,
    slStart, sli, pn, k,         \* perpendicular-seed scan
    seedIdx,                     \* position of `for seed in seedCache`
    extIdx,                      \* position of `for sl in self.streamlines`
    newSl,                       \* <<>> or <<the candidate streamline>>
    direction,                   \* direction of the running step loop of extend
    extended,                    \* local `extended` of the running extend
    caller,                      \* which call of extend is running
    result                       \* <<>> or <<the record generate returned>>

vars == <<pc, field, dSep, dTest, pointsGridCellSpacing, minLevel, pointsGrid,
          pointsGridCellWidthFactors, streamlines, seedCache, keptSeeds, level,
          levelFactor, slStart, sli, pn, k, seedIdx, extIdx, newSl, direction,
          extended, caller, result>>

At(seq, i) == seq[i + 1]
F == field[1]

(* ---------------------------------------------------------------------- *)
(* Streamline.                                                             *)
(* ---------------------------------------------------------------------- *)
\* a constructor that gives the seed point the level 0
StreamlineSeedLevelZero(seed, lvl) ==
    [points |-> << [x |-> seed.x, y |-> seed.y, level |-> 0] >>,
     seed |-> Point(seed.x, seed.y),
     level |-> lvl, seed_index |-> 0, index |-> None, bounds |-> EmptyBounds]

\* Streamline.__init__; `seed` remembers the constructor's argument
Streamline(seed, lvl) ==
    [points |-> << [x |-> seed.x, y |-> seed.y, level |-> lvl] >>,
     seed |-> Point(seed.x, seed.y),
     level |-> lvl, seed_index |-> 0, index |-> None, bounds |-> EmptyBounds]

\* addPoint that leaves seed_index alone when it inserts at the front
StreamlineAddPointsSeedIndexKept(sl, ps, dir) ==
    [sl EXCEPT
       !.points = IF dir > 0 THEN @ \o ps
                  ELSE [n \in 1..Len(ps) |-> ps[Len(ps) + 1 - n]] \o @,
       !.bounds = BoundsAddAll(@, ps)]

\* addPoint that puts a backward chunk in front in the order it was collected
StreamlineAddPointsChunkInFront(sl, ps, dir) ==
    [sl EXCEPT
       !.points = IF dir > 0 THEN @ \o ps ELSE ps \o @,
       !.seed_index = IF dir > 0 THEN @ ELSE @ + Len(ps),
       !.bounds = BoundsAddAll(@, ps)]

\* sl after sl.addPoint(p, dir) for the points p of ps, in their order
StreamlineAddPoints(sl, ps, dir) ==
    [sl EXCEPT
       !.points = IF dir > 0 THEN @ \o ps
                  ELSE [n \in 1..Len(ps) |-> ps[Len(ps) + 1 - n]] \o @,
       !.seed_index = IF dir > 0 THEN @ ELSE @ + Len(ps),
       !.bounds = BoundsAddAll(@, ps)]

(* ---------------------------------------------------------------------- *)
(* Occupancy grid.                                                         *)
(* ---------------------------------------------------------------------- *)
getPointsGridIndex(p) ==
    [xi |-> FloorDiv(p.x - F.bounds[1].min.x, pointsGridCellSpacing.x),
     yi |-> FloorDiv(p.y - F.bounds[1].min.y, pointsGridCellSpacing.y)]

\* the elements of ps at the indexes in idx, in their order
Pick(ps, idx) ==
    [m \in 1..Cardinality(idx) |->
       ps[CHOOSE n \in idx : Cardinality({j \in idx : j <= n}) = m]]

\* g = [grid, factors]: the points grid and its width factors.
\* g after self.addPoint(p, streamIndex) for the points p of ps, in their order
addPoints(g, ps, streamIndex) ==
    LET cells == [n \in 1..Len(ps) |-> getPointsGridIndex(ps[n])]
        entries == [n \in 1..Len(ps) |-> [point |-> ps[n], streamIndex |-> streamIndex]]
        newRows == {cells[n].yi : n \in 1..Len(ps)}
        rowOf(yi) == IF yi \in DOMAIN g.grid THEN g.grid[yi] ELSE <<>>
        newCols(yi) == {cells[n].xi : n \in {m \in 1..Len(ps) : cells[m].yi = yi}}
        cellOf(yi, xi) == IF xi \in DOMAIN rowOf(yi) THEN rowOf(yi)[xi] ELSE <<>>
        added(yi, xi) ==
            Pick(entries, {n \in 1..Len(ps) : cells[n].yi = yi /\ cells[n].xi = xi})
        p1(yi) == positionFromDistanceCourse(
                      Point(0, yi * pointsGridCellSpacing.y + F.bounds[1].min.y),
                      dSep, 1)
    IN  [grid |-> [yi \in DOMAIN g.grid \cup newRows |->
                     [xi \in DOMAIN rowOf(yi) \cup newCols(yi) |->
                        cellOf(yi, xi) \o added(yi, xi)]],
         factors |-> [yi \in DOMAIN g.grid \cup newRows |->
                        IF yi \in DOMAIN g.grid THEN g.factors[yi] ELSE p1(yi).x]]

addPoint(g, p, streamIndex) == addPoints(g, <<p>>, streamIndex)

G == [grid |-> pointsGrid, factors |-> pointsGridCellWidthFactors]

\* isPointGood without the search of the neighbouring cells
isPointGoodNoSearch(p, sep, streamIndex) == pointHasValue(F, p)

\* a search in which the entries of the asking streamline count too
isPointClearAnyOwner(p, sep, streamIndex) ==
    LET c == getPointsGridIndex(p)
    IN     \A i \in (c.yi - levelFactor)..(c.yi + levelFactor) :
             i \in DOMAIN pointsGrid =>
               LET lFactor == CeilDiv(levelFactor * pointsGridCellWidthFactors[i],
                                      pointsGridCellSpacing.x)
               IN  \A j \in (c.xi - lFactor)..(c.xi + lFactor) :
                     j \in DOMAIN pointsGrid[i] =>
                       \A n \in 1..Len(pointsGrid[i][j]) :
                         ~Closer(pointsGrid[i][j][n].point, p, sep)

\* the search of isPointGood: no entry of another streamline in the cells
\* around p is closer than sep
isPointClear(p, sep, streamIndex) ==
    LET c == getPointsGridIndex(p)
    IN     \A i \in (c.yi - levelFactor)..(c.yi + levelFactor) :
             i \in DOMAIN pointsGrid =>
               LET lFactor == CeilDiv(levelFactor * pointsGridCellWidthFactors[i],
                                      pointsGridCellSpacing.x)
               IN  \A j \in (c.xi - lFactor)..(c.xi + lFactor) :
                     j \in DOMAIN pointsGrid[i] =>
                       \A n \in 1..Len(pointsGrid[i][j]) :
                         LET gp == pointsGrid[i][j][n]
                         IN  ~(gp.streamIndex # streamIndex
                               /\ Closer(gp.point, p, sep))

\* isPointGood without the test for a flow value
isPointGoodNoValue(p, sep, streamIndex) == isPointClear(p, sep, streamIndex)

isPointGood(p, sep, streamIndex) ==
    /\ pointHasValue(F, p)
    /\ isPointClear(p, sep, streamIndex)

\* range(0, n, step) as a set
Range(n, step) == {i \in 0..(n - 1) : i % step = 0}

isStreamPointGood(sl, p, extraPoints) ==
    /\ Len(extraPoints) = levelFactor * iSteps =>
         \A i \in Range(Len(sl.points), iSteps * levelFactor) :
           ~Closer(At(sl.points, i), p, dTest)
    /\ \A i \in Range(Len(sl.points), iSteps) : ~Closer(At(sl.points, i), p, dTest)
    /\ \A i \in Range(Len(extraPoints) - iSteps, iSteps) :
         ~Closer(At(extraPoints, i), p, dTest)

(* ---------------------------------------------------------------------- *)
(* Integrator.                                                             *)
(* ---------------------------------------------------------------------- *)
\* step's transportOptions
transportOptions(dir) ==
    [distance |-> dSep * dir, steps |-> iSteps, minimumMagnitude |-> minMag]

\* The collecting loop of step: the chunk collected, or <<>> when pLast
\* became None.
RECURSIVE stepLoop(_, _, _, _)
\* a pass that, when it fails, keeps the part of the chunk collected so far
stepChunkKeepsPart(sl, dir, steps, its) ==
    IF /\ Len(its) = iSteps
       /\ \A n \in 1..Len(its) : isPointGood(its[n], dTest * levelFactor, sl.index)
       /\ isStreamPointGood(sl, its[Len(its)], steps \o its)
    THEN stepLoop(sl, dir, steps \o its, its[Len(its)])
    ELSE steps
\* one pass of the loop, with iSteps = transport(pLast, transportOptions)
stepChunk(sl, dir, steps, its) ==
    IF /\ Len(its) = iSteps
       /\ \A n \in 1..Len(its) : isPointGood(its[n], dTest * levelFactor, sl.index)
       /\ isStreamPointGood(sl, its[Len(its)], steps \o its)
    THEN stepLoop(sl, dir, steps \o its, its[Len(its)])
    ELSE <<>>
stepLoop(sl, dir, steps, pLast) ==
    IF Len(steps) >= iSteps * levelFactor THEN steps
    ELSE CHOOSE r \in { stepChunk(sl, dir, steps, its) :
                        its \in { transport(F, pLast, transportOptions(dir)) } } : TRUE

\* The points step(sl, dir) adds, in the order it adds them; <<>> when it
\* returns False.
stepFrom(sl, dir, p0) ==
    IF pointHasValue(F, p0) THEN stepLoop(sl, dir, <<>>, p0) ELSE <<>>
stepPoints(sl, dir) ==
    stepFrom(sl, dir, IF dir > 0 THEN sl.points[Len(sl.points)] ELSE sl.points[1])

\* a tagging with the level generate began with
TaggedMinLevel(steps) ==
    [n \in 1..Len(steps) |-> [x |-> steps[n].x, y |-> steps[n].y, level |-> minLevel]]
\* ip.level = self.level, for the points of a chunk
Tagged(steps) ==
    [n \in 1..Len(steps) |-> [x |-> steps[n].x, y |-> steps[n].y, level |-> level]]

\* step's final loop on the streamline: sl.addPoint(ip, direction)
stepAddToLine(sl, steps, dir) == StreamlineAddPoints(sl, Tagged(steps), dir)

\* step that leaves the grid alone
stepAddToGridNever(g, sl, steps) == g

\* step that enters the points of a streamline without an index too
stepAddToGridAlways(g, sl, steps) == addPoints(g, Tagged(steps), sl.index)
\* step's final loop on the grid: self.addPoint(ip, sl.index) if sl.index is
\* not None
stepAddToGrid(g, sl, steps) ==
    IF sl.index = None THEN g ELSE addPoints(g, Tagged(steps), sl.index)

\* the points at the indexes 1, 1 + iSteps, 1 + 2 * iSteps, ... of a list
EveryIStepsFromOne(points) ==
    [n \in 1..((Len(points) + iSteps - 2) \div iSteps) |-> At(points, (n - 1) * iSteps + 1)]
\* the points at the indexes 0, iSteps, 2 * iSteps, ... of a list
EveryISteps(points) ==
    [n \in 1..((Len(points) + iSteps - 1) \div iSteps) |-> At(points, (n - 1) * iSteps)]

\* addStreamline that numbers the streamlines from 1
addStreamlineFromOne(sl) ==
    IF sl.index = None
    THEN LET sl1 == [sl EXCEPT !.index = Len(streamlines) + 1]
         IN  [streamlines |-> Append(streamlines, sl1),
              g |-> addPoints(G, EveryISteps(sl1.points), sl1.index)]
    ELSE [streamlines |-> streamlines, g |-> G]

\* addStreamline(sl): [streamlines, g] afterwards
addStreamline(sl) ==
    IF sl.index = None
    THEN LET sl1 == [sl EXCEPT !.index = Len(streamlines)]
         IN  [streamlines |-> Append(streamlines, sl1),
              g |-> addPoints(G, EveryISteps(sl1.points), sl1.index)]
    ELSE [streamlines |-> streamlines, g |-> G]

(* ---------------------------------------------------------------------- *)
(* Placement driver: the values generate derives before its level loop.    *)
(* ---------------------------------------------------------------------- *)
generateDSep(f) == (getDensity(f) * separationFactor[1]) \div separationFactor[2]
generateDTest(f) == (generateDSep(f) * testFactor[1]) \div testFactor[2]

generateMinLat(f) ==
    IF f.bounds[1].min.y < 0 /\ f.bounds[1].max.y > 0 THEN 0
    ELSE Min(Abs(f.bounds[1].min.y), Abs(f.bounds[1].max.y))

generateCellSpacing(f) ==
    CHOOSE spacing \in
      { LET pdx == positionFromDistanceCourse(p0, d, 1)
            pdy == positionFromDistanceCourse(p0, d, 0)
        IN  Point(pdx.x - p0.x, pdy.y - p0.y) :
        <<p0, d>> \in { <<Point(0, generateMinLat(f)), generateDSep(f)>> } } : TRUE

\* dSepMax as <<numerator, denominator>>
generateDSepMax(f) ==
    CHOOSE d \in
      { LET m == IF size.x * cs.y <= size.y * cs.x THEN <<size.x, cs.x>>
                 ELSE <<size.y, cs.y>>
        IN  <<m[1] * dSepMaxFactor[2], m[2] * dSepMaxFactor[1]>> :
        <<size, cs>> \in { <<BoundsSize(f.bounds), generateCellSpacing(f)>> } } : TRUE

generateMinLevel(f) ==
    CHOOSE l \in { -FloorLog2(d[1], d[2]) : d \in { generateDSepMax(f) } } : TRUE

\* max(spacing * 2, size / 250)
SeedSpacingAxis(spacing, size) ==
    IF spacing * 2 * 250 >= size THEN spacing * 2 ELSE size \div 250

\* the number of passes of `x = s / 2.0; while x < size / 2.0: ...; x += s`
RECURSIVE SeedCount(_, _, _)
SeedCount(spacing, size, n) ==
    IF spacing * (2 * n + 1) < size THEN SeedCount(spacing, size, n + 1) ELSE n

\* the seed cache: the candidate seeds in loop order, those without a flow
\* value left out
generateSeedCache(f) ==
  CHOOSE cache \in {
    LET sx == SeedSpacingAxis(cs.x, size.x)
        sy == SeedSpacingAxis(cs.y, size.y)
        cx == f.bounds[1].min.x + size.x \div 2
        cy == f.bounds[1].min.y + size.y \div 2
        nx == SeedCount(sx, size.x, 0)
        ny == SeedCount(sy, size.y, 0)
        seedAt(n) ==
            LET x == sx \div 2 + (n \div (4 * ny)) * sx
                y == sy \div 2 + ((n \div 4) % ny) * sy
                i == 2 * ((n \div 2) % 2) - 1
                j == 2 * (n % 2) - 1
            IN  Point(cx + x * i, cy + y * j)
    IN  SelectSeq([n \in 1..(4 * nx * ny) |-> seedAt(n - 1)],
                  LAMBDA seed : pointHasValue(f, seed)) :
    <<size, cs>> \in { <<BoundsSize(f.bounds), generateCellSpacing(f)>> } } : TRUE

(* ---------------------------------------------------------------------- *)
(* Actions.                                                                *)
(* ---------------------------------------------------------------------- *)
Init ==
    /\ pc = "new"
    /\ field = <<>>
    /\ dSep = 0 /\ dTest = 0
    /\ pointsGridCellSpacing = Point(0, 0)
    /\ minLevel = 0
    /\ pointsGrid = <<>>
    /\ pointsGridCellWidthFactors = <<>>
    /\ streamlines = <<>>
    /\ seedCache = <<>> /\ keptSeeds = <<>>
    /\ level = 0 /\ levelFactor = 1
    /\ slStart = 0 /\ sli = 0 /\ pn = 0 /\ k = 0
    /\ seedIdx = 0 /\ extIdx = 0
    /\ newSl = <<>>
    /\ direction = 1
    /\ extended = FALSE
    /\ caller = "none"
    /\ result = <<>>

\* process_one: data_model = FlowField(...).  The small field, the field
\* across the equator and the inconsistent metadata are tried with the
\* uniform eastward array only.
Construct ==
    /\ pc = "new"
    /\ \E data \in Kinds, metadata \in {GoodMeta, SmallMeta, StraddleMeta} \cup BadMetas :
         /\ metadata # GoodMeta => data = "east"
         /\ field' = << FlowFieldInit(data, metadata) >>
    /\ pc' = "constructed"
    /\ UNCHANGED <<dSep, dTest, pointsGridCellSpacing, minLevel, pointsGrid,
                   pointsGridCellWidthFactors, streamlines, seedCache, keptSeeds,
                   level, levelFactor, slStart, sli, pn, k, seedIdx, extIdx,
                   newSl, direction, extended, caller, result>>

\* generate, up to its level loop
Generate ==
    /\ pc = "constructed"
    /\ dSep' = generateDSep(F)
    /\ dTest' = generateDTest(F)
    /\ pointsGridCellSpacing' = generateCellSpacing(F)
    /\ pointsGrid' = <<>>
    /\ pointsGridCellWidthFactors' = <<>>
    /\ minLevel' = generateMinLevel(F)
    /\ seedCache' = generateSeedCache(F)
    /\ streamlines' = <<>>
    /\ level' = minLevel' - 1
    /\ pc' = "level"
    /\ UNCHANGED <<field, keptSeeds, levelFactor, slStart, sli, pn, k, seedIdx,
                   extIdx, newSl, direction, extended, caller, result>>

\* a pass that keeps the levelFactor of the pass before
LevelBeginKeepsFactor ==
    /\ pc = "level"
    /\ level + 1 < 1
    /\ level' = level + 1
    /\ levelFactor' = levelFactor
    /\ extIdx' = 0
    /\ pc' = "extendOld"
    /\ UNCHANGED <<field, dSep, dTest, pointsGridCellSpacing, minLevel, pointsGrid,
                   pointsGridCellWidthFactors, streamlines, seedCache, keptSeeds,
                   slStart, sli, pn, k, seedIdx, newSl, direction, extended,
                   caller, result>>
\* for level in range(self.minLevel, 1): one more pass
LevelBegin ==
    /\ pc = "level"
    /\ level + 1 < 1
    /\ level' = level + 1
    /\ levelFactor' = Pow2(-(level + 1))
    /\ extIdx' = 0
    /\ pc' = "extendOld"
    /\ UNCHANGED <<field, dSep, dTest, pointsGridCellSpacing, minLevel, pointsGrid,
                   pointsGridCellWidthFactors, streamlines, seedCache, keptSeeds,
                   slStart, sli, pn, k, seedIdx, newSl, direction, extended,
                   caller, result>>

\* the level loop is exhausted: generate returns
Return ==
    /\ pc = "level"
    /\ ~(level + 1 < 1)
    /\ result' = << [dSep |-> dSep, streamlines |-> streamlines, iSteps |-> iSteps] >>
    /\ pc' = "done"
    /\ UNCHANGED <<field, dSep, dTest, pointsGridCellSpacing, minLevel, pointsGrid,
                   pointsGridCellWidthFactors, streamlines, seedCache, keptSeeds,
                   level, levelFactor, slStart, sli, pn, k, seedIdx, extIdx, newSl,
                   direction, extended, caller>>

\* for sl in self.streamlines: self.extend(sl) -- the call
ExtendOldBegin ==
    /\ pc = "extendOld"
    /\ extIdx < Len(streamlines)
    /\ caller' = "old"
    /\ direction' = 1
    /\ extended' = FALSE
    /\ pc' = "extend"
    /\ UNCHANGED <<field, dSep, dTest, pointsGridCellSpacing, minLevel, pointsGrid,
                   pointsGridCellWidthFactors, streamlines, seedCache, keptSeeds,
                   level, levelFactor, slStart, sli, pn, k, seedIdx, extIdx, newSl,
                   result>>

\* ... the loop is over: slStart = 0; keptSeeds = []
ExtendOldDone ==
    /\ pc = "extendOld"
    /\ extIdx >= Len(streamlines)
    /\ slStart' = 0
    /\ keptSeeds' = <<>>
    /\ seedIdx' = 0
    /\ pc' = "seeds"
    /\ UNCHANGED <<field, dSep, dTest, pointsGridCellSpacing, minLevel, pointsGrid,
                   pointsGridCellWidthFactors, streamlines, seedCache, level,
                   levelFactor, sli, pn, k, extIdx, newSl, direction, extended,
                   caller, result>>

\* the streamline the running extend works on
CurSl == IF caller = "old" THEN At(streamlines, extIdx) ELSE newSl[1]

\* extend's return to its caller
AfterExtend ==
    IF caller = "old" THEN "extendOld" ELSE IF caller = "perp" THEN "perpEnd" ELSE "seedEnd"

\* an extend that goes back to the forward loop after a backward step
StepApplyForwardAgain(sl, dir, steps, sl1, g1) ==
    /\ extended' = (extended \/ steps # <<>>)
    /\ pointsGrid' = g1.grid
    /\ pointsGridCellWidthFactors' = g1.factors
    /\ IF caller = "old"
       THEN /\ streamlines' = [streamlines EXCEPT ![extIdx + 1] = sl1]
            /\ newSl' = newSl
       ELSE /\ newSl' = <<sl1>>
            /\ streamlines' = streamlines
    /\ direction' = IF steps # <<>> THEN 1 ELSE -1
    /\ pc' = IF steps # <<>> \/ dir > 0 THEN "extend" ELSE AfterExtend
    /\ extIdx' = IF steps = <<>> /\ dir < 0 /\ caller = "old"
                 THEN extIdx + 1 ELSE extIdx

\* What step does to sl with the chunk `steps` it collected (<<>>: it
\* returned False), and what extend does with step's result.
StepApply(sl, dir, steps, sl1, g1) ==
    /\ extended' = (extended \/ steps # <<>>)
    /\ pointsGrid' = g1.grid
    /\ pointsGridCellWidthFactors' = g1.factors
    /\ IF caller = "old"
       THEN /\ streamlines' = [streamlines EXCEPT ![extIdx + 1] = sl1]
            /\ newSl' = newSl
       ELSE /\ newSl' = <<sl1>>
            /\ streamlines' = streamlines
    /\ direction' = IF steps # <<>> THEN dir ELSE -1
    /\ pc' = IF steps # <<>> \/ dir > 0 THEN "extend" ELSE AfterExtend
    /\ extIdx' = IF steps = <<>> /\ dir < 0 /\ caller = "old"
                 THEN extIdx + 1 ELSE extIdx

StepWith(sl, dir, steps) ==
    StepApply(sl, dir, steps,
              stepAddToLine(sl, steps, dir),
              stepAddToGrid(G, sl, steps))

\* One call self.step(stream, direction) of extend.
Step(dir) ==
    /\ pc = "extend"
    /\ direction = dir
    /\ \E steps \in { stepPoints(CurSl, dir) } : StepWith(CurSl, dir, steps)
    /\ UNCHANGED <<field, dSep, dTest, pointsGridCellSpacing, minLevel, seedCache,
                   keptSeeds, level, levelFactor, slStart, sli, pn, k, seedIdx,
                   caller, result>>

StepForward == Step(1)
StepBackward == Step(-1)

\* for seed in seedCache: the next seed; sli = slStart
SeedNext ==
    /\ pc = "seeds"
    /\ seedIdx < Len(seedCache)
    /\ sli' = slStart
    /\ pn' = 0
    /\ k' = 0
    /\ pc' = "scan"
    /\ UNCHANGED <<field, dSep, dTest, pointsGridCellSpacing, minLevel, pointsGrid,
                   pointsGridCellWidthFactors, streamlines, seedCache, keptSeeds,
                   level, levelFactor, slStart, seedIdx, extIdx, newSl, direction,
                   extended, caller, result>>

\* ... the seeds are exhausted: seedCache = keptSeeds, next level
LevelEnd ==
    /\ pc = "seeds"
    /\ seedIdx >= Len(seedCache)
    /\ seedCache' = keptSeeds
    /\ pc' = "level"
    /\ UNCHANGED <<field, dSep, dTest, pointsGridCellSpacing, minLevel, pointsGrid,
                   pointsGridCellWidthFactors, streamlines, keptSeeds, level,
                   levelFactor, slStart, sli, pn, k, seedIdx, extIdx, newSl,
                   direction, extended, caller, result>>

dSepEffective == dSep * levelFactor

\* the candidate seed of point pn of streamline sli, on side k
newSeedAt(slIndex, pointIndex, side) ==
    LET p == At(At(streamlines, slIndex).points, pointIndex)
    IN  positionFromDistanceCourse(p, dSepEffective, Direction(F, p) + 1 + 2 * side)

\* a scan that stays at its point
ScanAdvanceStuck ==
    /\ k' = 1 - k
    /\ pn' = pn

\* the position of the scan after candidate (pn, k)
ScanAdvance ==
    /\ k' = 1 - k
    /\ pn' = IF k = 1 THEN pn + iSteps * levelFactor ELSE pn

\* one candidate of the perpendicular scan
ScanCandidate ==
    /\ pc = "scan"
    /\ sli < Len(streamlines)
    /\ pn < Len(At(streamlines, sli).points)
    /\ ScanAdvance
    /\ \E newSeed \in { newSeedAt(sli, pn, k) } :
           IF isPointGood(newSeed, dSepEffective, None)
           THEN /\ newSl' = << Streamline(newSeed, level) >>
                /\ caller' = "perp"
                /\ direction' = 1
                /\ extended' = FALSE
                /\ pc' = "extend"
           ELSE UNCHANGED <<newSl, caller, direction, extended, pc>>
    /\ UNCHANGED <<field, dSep, dTest, pointsGridCellSpacing, minLevel, pointsGrid,
                   pointsGridCellWidthFactors, streamlines, seedCache, keptSeeds,
                   level, levelFactor, slStart, sli, seedIdx, extIdx, result>>

\* after extend(newSl) of a perpendicular candidate
PerpEnd ==
    /\ pc = "perpEnd"
    /\ \E a \in { addStreamline(newSl[1]) } :
           IF Len(newSl[1].points) > 2
           THEN /\ streamlines' = a.streamlines
                /\ pointsGrid' = a.g.grid
                /\ pointsGridCellWidthFactors' = a.g.factors
           ELSE UNCHANGED <<streamlines, pointsGrid, pointsGridCellWidthFactors>>
    /\ newSl' = <<>>
    /\ pc' = "scan"
    /\ UNCHANGED <<field, dSep, dTest, pointsGridCellSpacing, minLevel, seedCache,
                   keptSeeds, level, levelFactor, slStart, sli, pn, k, seedIdx,
                   extIdx, direction, extended, caller, result>>

\* the points of streamline sli are exhausted: the next streamline
ScanNextStreamline ==
    /\ pc = "scan"
    /\ sli < Len(streamlines)
    /\ pn >= Len(At(streamlines, sli).points)
    /\ sli' = sli + 1
    /\ pn' = 0
    /\ k' = 0
    /\ UNCHANGED <<pc, field, dSep, dTest, pointsGridCellSpacing, minLevel,
                   pointsGrid, pointsGridCellWidthFactors, streamlines, seedCache,
                   keptSeeds, level, levelFactor, slStart, seedIdx, extIdx, newSl,
                   direction, extended, caller, result>>

\* an end of the scan that leaves slStart where it was
ScanDoneKeepsStart ==
    /\ pc = "scan"
    /\ sli >= Len(streamlines)
    /\ slStart' = slStart
    /\ pc' = "trySeed"
    /\ UNCHANGED <<field, dSep, dTest, pointsGridCellSpacing, minLevel, pointsGrid,
                   pointsGridCellWidthFactors, streamlines, seedCache, keptSeeds,
                   level, levelFactor, sli, pn, k, seedIdx, extIdx, newSl,
                   direction, extended, caller, result>>
\* while sli < len(self.streamlines) is over: slStart = len(self.streamlines)
ScanDone ==
    /\ pc = "scan"
    /\ sli >= Len(streamlines)
    /\ slStart' = Len(streamlines)
    /\ pc' = "trySeed"
    /\ UNCHANGED <<field, dSep, dTest, pointsGridCellSpacing, minLevel, pointsGrid,
                   pointsGridCellWidthFactors, streamlines, seedCache, keptSeeds,
                   level, levelFactor, sli, pn, k, seedIdx, extIdx, newSl,
                   direction, extended, caller, result>>

\* keptSeeds that gets every seed that failed the scaled test
keptAfterFailedTestAlways(seed) == Append(keptSeeds, seed)

\* keptSeeds after the else branch: if self.isPointGood(seed, self.dSep):
\* keptSeeds.append(seed)
keptAfterFailedTest(seed) ==
    IF isPointGood(seed, dSep, None) THEN Append(keptSeeds, seed) ELSE keptSeeds

\* if self.isPointGood(seed, dSepEffective): ... else: ...
TrySeed ==
    /\ pc = "trySeed"
    /\ \E seed \in { At(seedCache, seedIdx) } :
           IF isPointGood(seed, dSepEffective, None)
           THEN /\ newSl' = << Streamline(seed, level) >>
                /\ caller' = "seed"
                /\ direction' = 1
                /\ extended' = FALSE
                /\ pc' = "extend"
                /\ UNCHANGED <<keptSeeds, seedIdx>>
           ELSE /\ keptSeeds' = keptAfterFailedTest(seed)
                /\ seedIdx' = seedIdx + 1
                /\ pc' = "seeds"
                /\ UNCHANGED <<newSl, caller, direction, extended>>
    /\ UNCHANGED <<field, dSep, dTest, pointsGridCellSpacing, minLevel, pointsGrid,
                   pointsGridCellWidthFactors, streamlines, seedCache, level,
                   levelFactor, slStart, sli, pn, k, extIdx, result>>

\* an end of a pending seed that scans the streamline it accepted before
\* the seed loop goes on
SeedEndScansAccepted ==
    /\ pc = "seedEnd"
    /\ \E a \in { addStreamline(newSl[1]) } :
           IF Len(newSl[1].points) > 2
           THEN /\ streamlines' = a.streamlines
                /\ pointsGrid' = a.g.grid
                /\ pointsGridCellWidthFactors' = a.g.factors
                /\ keptSeeds' = keptSeeds
                /\ seedIdx' = seedIdx
                /\ sli' = slStart
                /\ pn' = 0
                /\ k' = 0
                /\ pc' = "scan"
           ELSE /\ keptSeeds' = Append(keptSeeds, At(seedCache, seedIdx))
                /\ seedIdx' = seedIdx + 1
                /\ pc' = "seeds"
                /\ UNCHANGED <<streamlines, pointsGrid, pointsGridCellWidthFactors,
                               sli, pn, k>>
    /\ newSl' = <<>>
    /\ UNCHANGED <<field, dSep, dTest, pointsGridCellSpacing, minLevel, seedCache,
                   level, levelFactor, slStart, extIdx, direction,
                   extended, caller, result>>

\* after extend(newSl) of a pending seed
SeedEnd ==
    /\ pc = "seedEnd"
    /\ \E a \in { addStreamline(newSl[1]) } :
           IF Len(newSl[1].points) > 2
           THEN /\ streamlines' = a.streamlines
                /\ pointsGrid' = a.g.grid
                /\ pointsGridCellWidthFactors' = a.g.factors
                /\ keptSeeds' = keptSeeds
           ELSE /\ keptSeeds' = Append(keptSeeds, At(seedCache, seedIdx))
                /\ UNCHANGED <<streamlines, pointsGrid, pointsGridCellWidthFactors>>
    /\ newSl' = <<>>
    /\ seedIdx' = seedIdx + 1
    /\ pc' = "seeds"
    /\ UNCHANGED <<field, dSep, dTest, pointsGridCellSpacing, minLevel, seedCache,
                   level, levelFactor, slStart, sli, pn, k, extIdx, direction,
                   extended, caller, result>>

(* ---------------------------------------------------------------------- *)
(* Output shaping.  Coordinates in degrees are counted in units of 1/pi   *)
(* of a degree, which makes Point.degrees a multiplication by 180.        *)
(* ---------------------------------------------------------------------- *)
degrees(p) == Point(p.x * 180, p.y * 180)

\* the bounds process_one and process_request_geojson collect from the
\* bounds of the streamlines
collectBounds(sls) ==
    BoundsAddAll(EmptyBounds,
                 [n \in 1..(2 * Len(sls)) |->
                    IF n % 2 = 1 THEN sls[(n + 1) \div 2].bounds[1].min
                    ELSE sls[n \div 2].bounds[1].max])

\* Bounds.asDict, for bounds that are not empty
asDict(b) == [min |-> degrees(b[1].min), max |-> degrees(b[1].max)]
\* Bounds.asGeoJson, for bounds that are not empty
asGeoJson(b) ==
    <<degrees(b[1].min).x, degrees(b[1].min).y, degrees(b[1].max).x, degrees(b[1].max).y>>

\* the feature process_request_geojson builds of one streamline
Feature(data, sl) ==
    [type |-> "Feature",
     coordinates |-> [n \in 1..Len(sl.points) |->
                        <<degrees(sl.points[n]).x, degrees(sl.points[n]).y>>],
     index |-> sl.index, streamline_level |-> sl.level, seed_index |-> sl.seed_index,
     points_levels |-> [n \in 1..Len(sl.points) |-> sl.points[n].level],
     directions |-> [n \in 1..Len(sl.points) |-> Direction(F, sl.points[n])],
     dSep |-> data.dSep, iSteps |-> data.iSteps]

\* process_one after generate has returned: the result gets its bounds, or
\* asDict raises on the empty Bounds
process_one ==
    /\ pc = "done"
    /\ \E bounds \in { collectBounds(result[1].streamlines) } :
         IF bounds = EmptyBounds
         THEN /\ pc' = "raised"
              /\ UNCHANGED result
         ELSE /\ pc' = "shaped"
              /\ result' = << [dSep |-> result[1].dSep,
                               streamlines |-> result[1].streamlines,
                               iSteps |-> result[1].iSteps,
                               bounds |-> asDict(bounds)] >>
    /\ UNCHANGED <<field, dSep, dTest, pointsGridCellSpacing, minLevel, pointsGrid,
                   pointsGridCellWidthFactors, streamlines, seedCache, keptSeeds,
                   level, levelFactor, slStart, sli, pn, k, seedIdx, extIdx, newSl,
                   direction, extended, caller>>

\* process_request_geojson after its call of process_one: the feature
\* collection and its bbox, or a point without a flow raises
process_request_geojson ==
    /\ pc = "shaped"
    /\ LET data == result[1]
       IN  IF \E s \in 1..Len(data.streamlines) :
                \E n \in 1..Len(data.streamlines[s].points) :
                  ~pointHasValue(F, data.streamlines[s].points[n])
           THEN /\ pc' = "raised"
                /\ UNCHANGED result
           ELSE /\ pc' = "returned"
                /\ result' = << [type |-> "FeatureCollection",
                                 features |-> [s \in 1..Len(data.streamlines) |->
                                                 Feature(data, data.streamlines[s])],
                                 bbox |-> asGeoJson(collectBounds(data.streamlines))] >>
    /\ UNCHANGED <<field, dSep, dTest, pointsGridCellSpacing, minLevel, pointsGrid,
                   pointsGridCellWidthFactors, streamlines, seedCache, keptSeeds,
                   level, levelFactor, slStart, sli, pn, k, seedIdx, extIdx, newSl,
                   direction, extended, caller>>

Next ==
    \/ Construct
    \/ Generate
    \/ LevelBegin
    \/ Return
    \/ ExtendOldBegin
    \/ ExtendOldDone
    \/ StepForward
    \/ StepBackward
    \/ SeedNext
    \/ LevelEnd
    \/ ScanCandidate
    \/ PerpEnd
    \/ ScanNextStreamline
    \/ ScanDone
    \/ TrySeed
    \/ SeedEnd
    \/ process_one
    \/ process_request_geojson

Spec == Init /\ [][Next]_vars

(* ---------------------------------------------------------------------- *)
(* The flow field by itself: a field is constructed, one with data at      *)
(* every third sample only among them, and getFlow or interpolate is asked.*)
(* ---------------------------------------------------------------------- *)
ConstructField ==
    /\ pc = "new"
    /\ \E data \in Kinds \cup {"masked"} :
         field' = << FlowFieldInit(data, GoodMeta) >>
    /\ pc' = "constructed"
    /\ UNCHANGED <<dSep, dTest, pointsGridCellSpacing, minLevel, pointsGrid,
                   pointsGridCellWidthFactors, streamlines, seedCache, keptSeeds,
                   level, levelFactor, slStart, sli, pn, k, seedIdx, extIdx,
                   newSl, direction, extended, caller, result>>

\* the points getFlow is asked about: every half cell of the field and of a
\* margin of half a cell around it
AskedPoints ==
    {Point(x * 6, y * 8) : x \in (-1)..(2 * NumLon - 1), y \in (-1)..(2 * NumLat - 1)}
\* the flows interpolate is asked about
AskedFlows == {NoFlow, Flow(0, 0), Flow(10, 1), Flow(minMag, 2)}

AskGetFlow ==
    /\ pc = "constructed"
    /\ \E p \in AskedPoints :
         result' = << [asked |-> "getFlow", p |-> p, flow |-> getFlow(F, p)] >>
    /\ pc' = "asked"
    /\ UNCHANGED <<field, dSep, dTest, pointsGridCellSpacing, minLevel, pointsGrid,
                   pointsGridCellWidthFactors, streamlines, seedCache, keptSeeds,
                   level, levelFactor, slStart, sli, pn, k, seedIdx, extIdx,
                   newSl, direction, extended, caller>>

AskInterpolate ==
    /\ pc = "constructed"
    /\ \E v1 \in AskedFlows, v2 \in AskedFlows, n \in 0..Abs(F.dx) :
         result' = << [asked |-> "interpolate", v1 |-> v1, v2 |-> v2, n |-> n,
                       flow |-> interpolate(v1, v2, n, Abs(F.dx))] >>
    /\ pc' = "asked"
    /\ UNCHANGED <<field, dSep, dTest, pointsGridCellSpacing, minLevel, pointsGrid,
                   pointsGridCellWidthFactors, streamlines, seedCache, keptSeeds,
                   level, levelFactor, slStart, sli, pn, k, seedIdx, extIdx,
                   newSl, direction, extended, caller>>

FlowNext == ConstructField \/ AskGetFlow \/ AskInterpolate

FlowSpec == Init /\ [][FlowNext]_vars

\* process_one runs on one thread, from its first statement to its return
FairSpec == Spec /\ WF_vars(Next)

(* ---------------------------------------------------------------------- *)
(* Properties.                                                             *)
(* ---------------------------------------------------------------------- *)
\* every entry of the occupancy grid
GridEntries ==
    UNION { UNION { {pointsGrid[i][j][n] : n \in 1..Len(pointsGrid[i][j])} :
                    j \in DOMAIN pointsGrid[i] } :
            i \in DOMAIN pointsGrid }

\* C1: in every state, two grid entries of different streamlines are at a
\* distance of at least dTest * levelFactor, levelFactor being the one of the
\* level at which the later of the two entries was placed.
C1_GridEntriesSeparated ==
    \A e1 \in GridEntries, e2 \in GridEntries :
      e1.streamIndex # e2.streamIndex =>
        ~Closer(e1.point, e2.point,
                dTest * Pow2(-Max(e1.point.level, e2.point.level)))

\* C1 witness: entries of two streamlines, one of them placed at level 0,
\* lie closer than the separation of level -1 would allow.
C1_Witness ==
    \E e1 \in GridEntries, e2 \in GridEntries :
      /\ e1.streamIndex # e2.streamIndex
      /\ e1.point.level = -1 /\ e2.point.level = 0
      /\ Closer(e1.point, e2.point, dTest * 2)

\* C2: in the result, two points of distinct accepted streamlines that were
\* both placed at level l are at a distance of at least dTest * 2^(-l), up
\* to a tolerance of one length unit; this is about every point of the
\* streamlines, stored in the grid or not.
C2_AllPointsSeparated ==
    pc = "done" =>
      \A s \in 1..Len(streamlines), t \in 1..Len(streamlines) :
        s # t =>
          \A m \in 1..Len(streamlines[s].points), n \in 1..Len(streamlines[t].points) :
            LET p == streamlines[s].points[m]
                q == streamlines[t].points[n]
            IN  p.level = q.level => ~Closer(p, q, dTest * Pow2(-p.level) - 1)

\* the bounding box of a list of points
BoundingBox(points) == BoundsAddAll(EmptyBounds, points)

\* C3: the bounds of every streamline generate returns are the bounding box
\* of all of its points, the seed included.
C3_BoundsAreBoundingBox ==
    pc = "done" =>
      \A s \in 1..Len(result[1].streamlines) :
        result[1].streamlines[s].bounds = BoundingBox(result[1].streamlines[s].points)

\* the grid entries owned by streamline number index
EntriesOf(index) == {e \in GridEntries : e.streamIndex = index}
\* no cell of the grid holds the same entry twice
NoEntryTwice ==
    \A i \in DOMAIN pointsGrid : \A j \in DOMAIN pointsGrid[i] :
      \A m \in 1..Len(pointsGrid[i][j]), n \in 1..Len(pointsGrid[i][j]) :
        m # n => pointsGrid[i][j][m] # pointsGrid[i][j][n]

\* the indexes of sl.points that were in the list when sl was accepted (the
\* points of the streamline's own level: extension happens at later levels)
\* and the first of them
OwnLevel(sl) == {i \in 0..(Len(sl.points) - 1) : At(sl.points, i).level = sl.level}
FirstOwn(sl) == CHOOSE i \in OwnLevel(sl) : \A j \in OwnLevel(sl) : i <= j

\* C4 as stated: in every state, the grid entries owned by an accepted
\* streamline are exactly its points at the indexes 0, iSteps, 2 * iSteps, ...
C4_EntriesAreEveryIStepsth ==
    \A s \in 1..Len(streamlines) :
      LET sl == streamlines[s]
      IN  EntriesOf(sl.index) =
            { [point |-> At(sl.points, i), streamIndex |-> sl.index] :
              i \in Range(Len(sl.points), iSteps) }

\* C4 amended: in every state, the grid entries owned by an accepted
\* streamline are exactly every iSteps-th point of the list it had when it
\* was accepted, together with every point a later extension added to it,
\* each of them once.
C4_EntriesAreSubsamplePlusExtension ==
    \A s \in 1..Len(streamlines) :
      LET sl == streamlines[s]
          stored == {i \in 0..(Len(sl.points) - 1) :
                       \/ At(sl.points, i).level # sl.level
                       \/ (i - FirstOwn(sl)) % iSteps = 0}
      IN  /\ EntriesOf(sl.index) =
               { [point |-> At(sl.points, i), streamIndex |-> sl.index] : i \in stored }
          /\ NoEntryTwice

\* C4 witness: an accepted streamline was extended at a later level and the
\* grid holds a point of it whose index is no multiple of iSteps.
C4_Witness ==
    \E s \in 1..Len(streamlines) :
      \E i \in 0..(Len(streamlines[s].points) - 1) :
        /\ i % iSteps # 0
        /\ At(streamlines[s].points, i).level > streamlines[s].level
        /\ [point |-> At(streamlines[s].points, i), streamIndex |-> s - 1]
             \in GridEntries

\* seed_index is an index of the list and the point there is the seed
SeedInPlace(sl) ==
    /\ 0 <= sl.seed_index /\ sl.seed_index < Len(sl.points)
    /\ Point(At(sl.points, sl.seed_index).x, At(sl.points, sl.seed_index).y) = sl.seed

\* C5: in every state, every accepted streamline has at least 3 points, its
\* seed_index is an index of its point list and the point at seed_index is
\* the seed it was created from; the last two also hold of the candidate
\* streamline while extend steps it forward and backward.
C5_AcceptedStreamlineShape ==
    /\ \A s \in 1..Len(streamlines) :
         Len(streamlines[s].points) >= 3 /\ SeedInPlace(streamlines[s])
    /\ \A n \in 1..Len(newSl) : SeedInPlace(newSl[n])

\* C5 witness: an accepted streamline has grown on both sides of its seed.
C5_Witness ==
    \E s \in 1..Len(streamlines) :
      /\ streamlines[s].seed_index > 0
      /\ streamlines[s].seed_index < Len(streamlines[s].points) - 1

\* old is a contiguous part of new
Within(old, new) ==
    \E a \in 0..(Len(new) - Len(old)) : \A n \in 1..Len(old) : new[a + n] = old[n]

\* C6, in every state: streamlines[k].index = k for every position k.
IndexIsPosition == \A s \in 1..Len(streamlines) : streamlines[s].index = s - 1

\* C6, in every step: the accepted list only grows at its end, the index of
\* an accepted streamline does not change, and its points stay, unchanged and
\* in order, new points being added at the two ends only.
AppendOnly ==
    /\ Len(streamlines') >= Len(streamlines)
    /\ \A s \in 1..Len(streamlines) :
         /\ streamlines'[s].index = streamlines[s].index
         /\ Within(streamlines[s].points, streamlines'[s].points)

\* C6: the index of an accepted streamline is its position in the list, and
\* the list and the points of its streamlines are append-only.
C6_IndexedAppendOnly == [](IndexIsPosition) /\ [][AppendOnly]_vars

\* C6 witness: the second accepted streamline has received points of a
\* later level at both of its ends.
C6_Witness ==
    /\ Len(streamlines) >= 2
    /\ streamlines[2].index = 1
    /\ streamlines[2].points[1].level > streamlines[2].level
    /\ streamlines[2].points[Len(streamlines[2].points)].level > streamlines[2].level

\* C7: when the driver tries the pending seed: it is accepted as a new
\* streamline iff isPointGood(seed, dSepEffective) holds and the extended
\* streamline has more than 2 points; a seed that is not accepted is kept for
\* the next level iff isPointGood(seed, dSep) holds at that moment, also when
\* it passed the scaled test and its streamline stayed too short, and is
\* dropped otherwise; an accepted seed is not kept; the seeds kept are the
\* seed cache of the next level.
SeedTried == At(seedCache, seedIdx)
SeedAccepted ==
    /\ Len(streamlines') = Len(streamlines) + 1
    /\ streamlines'[Len(streamlines')].seed = SeedTried
SeedKept == keptSeeds' = Append(keptSeeds, SeedTried) /\ streamlines' = streamlines
SeedDropped == keptSeeds' = keptSeeds /\ streamlines' = streamlines
SeedKeptIffGood == IF isPointGood(SeedTried, dSep, None) THEN SeedKept ELSE SeedDropped
SeedDecision ==
    /\ pc = "trySeed" /\ pc' = "seeds" =>
         ~isPointGood(SeedTried, dSepEffective, None) /\ SeedKeptIffGood
    /\ pc = "trySeed" /\ pc' # "seeds" =>
         /\ isPointGood(SeedTried, dSepEffective, None)
         /\ newSl' = << Streamline(SeedTried, level) >>
         /\ keptSeeds' = keptSeeds /\ streamlines' = streamlines
    /\ pc = "seedEnd" =>
         /\ isPointGood(SeedTried, dSepEffective, None)
         /\ newSl[1].seed = SeedTried
         /\ SeedAccepted <=> Len(newSl[1].points) > 2
         /\ SeedAccepted => keptSeeds' = keptSeeds
         /\ ~SeedAccepted => SeedKeptIffGood
    /\ pc = "seeds" /\ pc' = "level" => seedCache' = keptSeeds
C7_SeedAcceptKeepDrop == [][SeedDecision]_vars

\* C7 witness: at the end of a pass over the seed cache in which streamlines
\* were accepted, a seed that passed the scaled test was kept because its
\* streamline stayed too short, and more seeds were tried than were kept.
C7_Witness ==
    /\ pc = "seedEnd"
    /\ seedIdx = Len(seedCache) - 1
    /\ Len(newSl[1].points) <= 2
    /\ Len(keptSeeds) < seedIdx
    /\ \E s \in 1..Len(streamlines) : streamlines[s].level = level

\* C8: constructing a FlowField from inconsistent metadata fails: no FlowField
\* is produced from them, and generate is never reached with such a field.
C8_InconsistentMetadataRejected == field # <<>> => ~Inconsistent(F.metadata)

\* C9: for a field whose samples all have a speed < 0, the seed cache is
\* empty after the seed pre-generation, no streamline is ever accepted, and
\* generate returns a record with dSep > 0, iSteps = 5 and no streamlines.
EmptyField == field # <<>> /\ F.data = "empty"
EmptyFieldSafe ==
    EmptyField /\ pc \notin {"new", "constructed"} =>
      /\ seedCache = <<>>
      /\ streamlines = <<>>
      /\ pc = "done" =>
           /\ result[1].dSep > 0
           /\ result[1].iSteps = 5
           /\ result[1].streamlines = <<>>
C9_EmptyFieldReturnsEmpty ==
    [](EmptyFieldSafe) /\ ((EmptyField /\ pc = "constructed") ~> pc = "done")

\* C9 witness: generate has returned for the field without data.
C9_Witness == EmptyField /\ pc = "done" /\ result[1].streamlines = <<>>

\* C10: for a field whose samples all have a magnitude at or below minMag,
\* every transport from a candidate streamline returns fewer than iSteps
\* points, no candidate exceeds 1 point, none is accepted, nothing is
\* inserted into the occupancy grid, and generate returns no streamlines.
LowField == field # <<>> /\ F.data \in {"lowmag", "still"}
C11_MinLevelNotPositive == pc \notin {"new", "constructed"} => minLevel <= 0

\* C12: generate runs to completion: every call of extend ends, every
\* perpendicular-seed scan ends although the list it scans grows, and the
\* list of streamlines is returned.
C12_GenerateTerminates ==
    /\ (pc = "extend") ~> (pc # "extend")
    /\ (pc = "scan") ~> (pc = "trySeed")
    /\ <>(pc = "done" /\ result[1].streamlines = streamlines)

\* C12 witness: generate has returned for the circulating field with a
\* streamline that went around the middle and ended close to where it began.
C12_Witness ==
    /\ pc = "done" /\ F.data = "vortex"
    /\ \E s \in 1..Len(streamlines) :
         /\ Len(streamlines[s].points) > 8 * iSteps
         /\ Closer(streamlines[s].points[1],
                   streamlines[s].points[Len(streamlines[s].points)], dSep + 1)

\* the point one transport sub-step of length distance from p: half a
\* sub-step along the flow at p, then the whole sub-step from p along the
\* flow at that midpoint
TransportedFrom(p, distance) ==
    positionFromDistanceCourse(
        p, distance,
        Direction(F, positionFromDistanceCourse(p, distance \div 2, Direction(F, p))))
\* q lies one sub-step downstream of p: q was transported forward from p, or
\* p was transported backward from q
Downstream(p, q) ==
    \/ /\ pointHasValue(F, p)
       /\ Point(q.x, q.y) = TransportedFrom(p, dSep \div iSteps)
    \/ /\ pointHasValue(F, q)
       /\ Point(p.x, p.y) = TransportedFrom(q, (0 - dSep) \div iSteps)
OrderedAlongFlow(sl) ==
    \A n \in 1..(Len(sl.points) - 1) : Downstream(sl.points[n], sl.points[n + 1])
IncreasingX(sl) ==
    \A n \in 1..(Len(sl.points) - 1) : sl.points[n].x < sl.points[n + 1].x

\* C13: in every state, in every accepted streamline and in the one being
\* grown, each point lies one transport sub-step downstream of the point
\* before it in the list, whichever end the points were added at; in the
\* uniform eastward field x strictly increases along every list.
C13_OrderedAlongFlow ==
    pc \notin {"new", "constructed"} =>
      \A sl \in {streamlines[s] : s \in 1..Len(streamlines)}
                   \cup {newSl[s] : s \in 1..Len(newSl)} :
        /\ OrderedAlongFlow(sl)
        /\ F.data = "east" => IncreasingX(sl)

\* C13 witness: an accepted streamline of the eastward field, and one of a
\* field that turns, with points on both sides of its seed.
C13_Witness ==
    /\ pc = "done" /\ F.data \in {"east", "confluence"}
    /\ \E s \in 1..Len(streamlines) :
         /\ streamlines[s].seed_index >= iSteps
         /\ Len(streamlines[s].points) > streamlines[s].seed_index + iSteps

\* C14: in every state, every point of every accepted streamline and of the
\* one being grown lies within the bounds of the field and has a flow
\* value there.
C14_PointsInBoundsWithFlow ==
    pc \notin {"new", "constructed"} =>
      \A sl \in {streamlines[s] : s \in 1..Len(streamlines)}
                   \cup {newSl[s] : s \in 1..Len(newSl)} :
        \A n \in 1..Len(sl.points) :
          /\ BoundsContains(F.bounds, sl.points[n])
          /\ pointHasValue(F, sl.points[n])

\* C14 witness: a field across the equator has returned streamlines with
\* points on both sides of it, grown forward and backward from their seeds.
C14_Witness ==
    /\ pc = "done"
    /\ F.bounds[1].min.y < 0 /\ F.bounds[1].max.y > 0
    /\ \E s \in 1..Len(streamlines) :
         /\ streamlines[s].seed_index > 0
         /\ streamlines[s].seed_index < Len(streamlines[s].points) - 1
         /\ streamlines[s].points[1].y < 0
    /\ \E s \in 1..Len(streamlines) : streamlines[s].points[1].y > 0

\* the bounding box <<minLon, minLat, maxLon, maxLat>> contains the
\* coordinate pair c
BboxContains(bbox, c) ==
    /\ bbox[1] <= c[1] /\ c[1] <= bbox[3]
    /\ bbox[2] <= c[2] /\ c[2] <= bbox[4]

\* C15: output shaping never raises, whatever generate returned, and the
\* bbox of the collection it returns contains every coordinate pair of
\* every feature.
C15_OutputShapingCompletes ==
    /\ pc # "raised"
    /\ pc = "returned" =>
         \A s \in 1..Len(result[1].features) :
           \A n \in 1..Len(result[1].features[s].coordinates) :
             BboxContains(result[1].bbox, result[1].features[s].coordinates[n])

\* the streamline of the running extend, after the step
CurSlAfter == IF caller = "old" THEN streamlines'[extIdx + 1] ELSE newSl'[1]
\* extend saw step return True: it notes the success and calls step again
\* in the same direction
StepReturnedTrue == extended' /\ direction' = direction /\ pc' = "extend"
\* the endpoint step starts from
StepEndpoint == IF direction > 0 THEN CurSl.points[Len(CurSl.points)] ELSE CurSl.points[1]
\* new is old with one chunk of iSteps * levelFactor points of the current
\* level at the end dir points to, and the grid has received them iff old
\* has an index
ChunkAdded(old, new, dir) ==
    LET n == iSteps * levelFactor
        added == IF dir > 0 THEN SubSeq(new.points, Len(old.points) + 1, Len(new.points))
                 ELSE SubSeq(new.points, 1, n)
    IN  /\ Len(new.points) = Len(old.points) + n
        /\ IF dir > 0
           THEN /\ SubSeq(new.points, 1, Len(old.points)) = old.points
                /\ new.seed_index = old.seed_index
           ELSE /\ SubSeq(new.points, n + 1, Len(new.points)) = old.points
                /\ new.seed_index = old.seed_index + n
        /\ \A m \in 1..Len(added) : added[m].level = level
        /\ new.index = old.index /\ new.level = old.level
        /\ new.bounds = BoundsAddAll(old.bounds, added)
        /\ IF old.index = None
           THEN UNCHANGED <<pointsGrid, pointsGridCellWidthFactors>>
           ELSE GridEntries' =
                  GridEntries \cup {[point |-> added[m], streamIndex |-> old.index] :
                                    m \in 1..Len(added)}
StepAllOrNothing ==
    pc = "extend" =>
      /\ ~pointHasValue(F, StepEndpoint) => ~StepReturnedTrue
      /\ IF StepReturnedTrue
         THEN ChunkAdded(CurSl, CurSlAfter, direction)
         ELSE /\ CurSlAfter = CurSl
              /\ UNCHANGED <<pointsGrid, pointsGridCellWidthFactors>>

\* C16: every call of step either adds exactly iSteps * levelFactor points of
\* the current level at the chosen end of the streamline, and enters them in
\* the grid iff the streamline has an index, and returns True; or it leaves
\* the streamline and the grid as they were and returns False.
C16_StepAllOrNothing == [][StepAllOrNothing]_vars

\* C16 witness: in an extend of a level with two transports to the chunk,
\* a step has returned True, and the step about to be made fails on its
\* second transport, after the first one gave five good points.
C16_Witness ==
    /\ pc = "extend" /\ extended /\ levelFactor = 2
    /\ stepPoints(CurSl, direction) = <<>>
    /\ LET its == transport(F, StepEndpoint, transportOptions(direction))
       IN  /\ Len(its) = iSteps
           /\ \A n \in 1..Len(its) : isPointGood(its[n], dTest * levelFactor, CurSl.index)
           /\ isStreamPointGood(CurSl, its[Len(its)], its)

\* the step of this transition added points to the streamline of the
\* running extend, that is, it returned True
StepGrew == Len(CurSlAfter.points) > Len(CurSl.points)
ExtendOrder ==
    /\ (pc # "extend" /\ pc' = "extend") => (direction' = 1 /\ ~extended')
    /\ pc = "extend" =>
         /\ extended' = (extended \/ StepGrew)
         /\ direction = 1 =>
              /\ pc' = "extend"
              /\ direction' = IF StepGrew THEN 1 ELSE -1
         /\ direction = -1 =>
              IF StepGrew THEN pc' = "extend" /\ direction' = -1
              ELSE pc' = AfterExtend

\* C17: an extend begins with forward steps and with nothing extended; a
\* forward step that returns True is followed by a forward step and the first
\* that returns False by the backward steps; a backward step that returns
\* True is followed by a backward step and the first that returns False ends
\* the extend; and the value extend returns is True iff one of its steps
\* returned True.
C17_ExtendForwardThenBackward == [][ExtendOrder]_vars

\* C17 witness: an extend in its backward loop whose streamline has grown
\* at both ends.
C17_Witness ==
    /\ pc = "extend" /\ direction = -1 /\ extended
    /\ CurSl.seed_index > 0
    /\ Len(CurSl.points) > CurSl.seed_index + 1

\* the point has a flow sample of a magnitude strictly greater than m
FlowStrictlyAbove(p, m) ==
    /\ BoundsContains(F.bounds, p)
    /\ getFlow(F, p) # NoFlow
    /\ MagnitudeAbove(F, p, m)
\* a transport sub-step of length distance can be made from p: p and the
\* half-step midpoint both have a flow strictly above m
SubStepPossible(p, distance, m) ==
    /\ FlowStrictlyAbove(p, m)
    /\ FlowStrictlyAbove(
         positionFromDistanceCourse(p, distance \div 2, Direction(F, p)), m)
\* the number of consecutive sub-steps possible from p, up to left
RECURSIVE PossibleSubSteps(_, _, _, _)
PossibleSubSteps(p, distance, m, left) ==
    IF left = 0 \/ ~SubStepPossible(p, distance, m) THEN 0
    ELSE 1 + PossibleSubSteps(TransportedFrom(p, distance), distance, m, left - 1)
\* the n-th point of the path of sub-steps from p
RECURSIVE PathPoint(_, _, _)
PathPoint(p, distance, n) ==
    IF n = 0 THEN Point(p.x, p.y)
    ELSE TransportedFrom(PathPoint(p, distance, n - 1), distance)
\* the start points and options transport is tried with: the two ends and
\* the seed of the streamline being extended, both directions, one and
\* iSteps steps
TransportStarts ==
    {CurSl.points[1], CurSl.points[Len(CurSl.points)], CurSl.seed}
TransportOptionsTried ==
    {[distance |-> dSep * dir, steps |-> n, minimumMagnitude |-> minMag] :
       dir \in {1, -1}, n \in {1, iSteps}}
TransportAsSpecified(p, options) ==
    LET ret == transport(F, p, options)
        d == options.distance \div options.steps
        possible == PossibleSubSteps(p, d, options.minimumMagnitude, options.steps)
    IN  /\ Len(ret) <= options.steps
        /\ Len(ret) = possible
        /\ \A n \in 1..Len(ret) : ret[n] = PathPoint(p, d, n)

InWindow(p, e) ==
    LET c == getPointsGridIndex(p)
        ce == getPointsGridIndex(e.point)
    IN  /\ Abs(ce.yi - c.yi) <= levelFactor
        /\ Abs(ce.xi - c.xi) <=
             CeilDiv(levelFactor * pointsGridCellWidthFactors[ce.yi],
                     pointsGridCellSpacing.x)
\* some entry of entries in the window of another owner than ownerIndex is
\* closer to p than sep
Rejecting(entries, p, sep, ownerIndex) ==
    \E e \in entries :
      InWindow(p, e) /\ e.streamIndex # ownerIndex /\ Closer(e.point, p, sep)
\* the points and owners isPointGood is asked about: the seeds of the
\* cache, with no owner, and the ends, the seed and two points beside each
\* accepted streamline, with no owner and with the streamline as the owner
QueryCases ==
    {<<seedCache[n], None>> : n \in 1..Len(seedCache)}
      \cup UNION { {streamlines[s].points[1],
                    streamlines[s].points[Len(streamlines[s].points)],
                    streamlines[s].seed,
                    positionFromDistanceCourse(streamlines[s].points[1], dTest, 0),
                    positionFromDistanceCourse(streamlines[s].seed, dSep, 2)}
                   \X {None, s - 1} : s \in 1..Len(streamlines) }
QuerySeps == {dTest * levelFactor, dSep * levelFactor, dSep}
IsPointGoodAsSpecified ==
    pc \in {"scan", "trySeed", "extend"} =>
      \A entries \in {GridEntries} :
        \A q \in QueryCases, sep \in QuerySeps :
          isPointGood(q[1], sep, q[2]) =
            (pointHasValue(F, q[1]) /\ ~Rejecting(entries, q[1], sep, q[2]))
\* the statements that only ask isPointGood leave the grid as it is
QueryLeavesGrid ==
    pc \in {"scan", "trySeed"} => UNCHANGED <<pointsGrid, pointsGridCellWidthFactors>>

\* C19: isPointGood(p, sep, ownerIndex) is false for a point without a flow
\* value and otherwise false iff an entry in the scanned window that belongs
\* to another owner is closer to p than sep (with no owner given, every
\* entry counts); and asking it does not change the grid.
C19_IsPointGood == [](IsPointGoodAsSpecified) /\ [][QueryLeavesGrid]_vars

\* C19 witness: a point is good for the streamline that owns the entries
\* near it and not good for a caller that names no owner.
C19_Witness ==
    /\ pc \in {"scan", "trySeed", "extend"}
    /\ \E q \in QueryCases :
         /\ q[2] # None
         /\ isPointGood(q[1], dSep, q[2])
         /\ ~isPointGood(q[1], dSep, None)
         /\ Rejecting(GridEntries, q[1], dSep, None)

\* the sample at the index <<x, y>> is inside the array and has a speed >= 0
ValidCell(x, y) ==
    /\ x >= 0 /\ x < F.metadata.numPointsLongitudinal
    /\ y >= 0 /\ y < F.metadata.numPointsLatitudinal
    /\ Sample(F.data, x, y)[1] >= 0
\* the indexes of the four samples around p
Surrounding(p) ==
    {FloorDiv(p.x - F.minPoint.x, F.dx), CeilDiv(p.x - F.minPoint.x, F.dx)}
      \X {FloorDiv(p.y - F.minPoint.y, F.dy), CeilDiv(p.y - F.minPoint.y, F.dy)}
ValidAround(p) == {c \in Surrounding(p) : ValidCell(c[1], c[2])}

\* C20: interpolate returns no flow iff neither argument is a flow, whatever
\* the weight; and getFlow of a point within the bounds returns no flow iff
\* none of the four samples around the point is inside the array with a
\* speed >= 0.
C20_InterpolateNullIffBothNull ==
    pc = "asked" =>
      /\ result[1].asked = "interpolate" =>
           (result[1].flow = NoFlow <=>
              (result[1].v1 = NoFlow /\ result[1].v2 = NoFlow))
      /\ (result[1].asked = "getFlow" /\ BoundsContains(F.bounds, result[1].p)) =>
           (result[1].flow = NoFlow <=> ValidAround(result[1].p) = {})

\* C20 witness: getFlow has returned a flow for a point of the field with
\* one sample with data and three without around it.
C20_Witness ==
    /\ pc = "asked" /\ result[1].asked = "getFlow"
    /\ BoundsContains(F.bounds, result[1].p)
    /\ Cardinality(Surrounding(result[1].p)) = 4
    /\ Cardinality(ValidAround(result[1].p)) = 1
    /\ result[1].flow # NoFlow

\* the points the step of this transition added to the streamline of the
\* running extend
StepAdded ==
    IF direction > 0
    THEN SubSeq(CurSlAfter.points, Len(CurSl.points) + 1, Len(CurSlAfter.points))
    ELSE SubSeq(CurSlAfter.points, 1, Len(CurSlAfter.points) - Len(CurSl.points))
SeedHasBirthLevel(sl) == At(sl.points, sl.seed_index).level = sl.level
AddedHaveCurrentLevel ==
    (pc = "extend" /\ StepGrew) =>
      \A n \in 1..Len(StepAdded) : StepAdded[n].level = level
\* a streamline is created with the level of the driver
BornAtCurrentLevel ==
    (pc \in {"scan", "trySeed"} /\ newSl' # <<>>) =>
      (newSl'[1].level = level /\ Len(newSl'[1].points) = 1)

\* C21: in every state the seed point of every streamline carries the level
\* of the streamline, which is the level of the driver when it was created;
\* and the points a step adds carry the level the driver has at that step.
C21_PointLevels ==
    /\ [](\A sl \in {streamlines[s] : s \in 1..Len(streamlines)}
                      \cup {newSl[s] : s \in 1..Len(newSl)} : SeedHasBirthLevel(sl))
    /\ [][AddedHaveCurrentLevel /\ BornAtCurrentLevel]_vars

\* C21 witness: a streamline created at the first level has received
\* points at level 0, which carry level 0 beside its seed of level -1.
C21_Witness ==
    \E s \in 1..Len(streamlines) :
      /\ streamlines[s].level < 0
      /\ At(streamlines[s].points, streamlines[s].seed_index).level = streamlines[s].level
      /\ \E n \in 1..Len(streamlines[s].points) : streamlines[s].points[n].level = 0
      /\ level = 0

\* the first pass of a level is running: the loop over the streamlines
\* accepted so far, or the extend of one of them
InFirstPass == pc = "extendOld" \/ (pc = "extend" /\ caller = "old")
\* a pass of the level loop is running
InLevel == pc \in {"extendOld", "extend", "seeds", "scan", "perpEnd", "trySeed", "seedEnd"}
LevelInvariant ==
    /\ InLevel => (minLevel <= level /\ level <= 0 /\ levelFactor = Pow2(-level))
    /\ InFirstPass =>
         /\ newSl = <<>>
         /\ extIdx <= Len(streamlines)
         /\ \A s \in 1..Len(streamlines) : streamlines[s].level < level
    /\ (pc = "extend" /\ caller = "old") => extIdx < Len(streamlines)
LevelOrder ==
    /\ level' # level =>
         \/ pc = "constructed" /\ level' = minLevel' - 1
         \/ pc = "level" /\ level' = level + 1 /\ level' <= 0 /\ extIdx' = 0
              /\ pc' = "extendOld"
    /\ InFirstPass =>
         /\ Len(streamlines') = Len(streamlines)
         /\ extIdx' \in {extIdx, extIdx + 1}
         /\ \A s \in 1..Len(streamlines) :
              streamlines'[s] # streamlines[s] =>
                (pc = "extend" /\ s = extIdx + 1)
         /\ pc' \in {"extendOld", "extend", "seeds"}
         /\ pc' = "seeds" => extIdx = Len(streamlines)
         /\ pc' = "extend" => caller' = "old"
         /\ (pc = "extend" /\ StepGrew) =>
              \A n \in 1..Len(StepAdded) :
                [point |-> StepAdded[n], streamIndex |-> extIdx] \in GridEntries'
    /\ (pc = "extendOld" /\ pc' = "extend") => (extIdx' = extIdx)
    /\ (~InFirstPass /\ pc' = "extend") => caller' # "old"
    /\ (pc = "level" /\ pc' = "done" /\ minLevel <= 0) => level = 0

\* C22: the passes are made at the levels minLevel, minLevel + 1, ... up to
\* 0 (none when minLevel > 0), each with levelFactor = 2^(-level), and
\* generate returns after the pass of level 0; a pass first extends the
\* streamlines accepted at earlier levels, one after the other in the order
\* of their indexes, without creating a streamline, the points they gain
\* entering the grid under their index; and the streamlines accepted in the
\* pass are not extended again in it.
C22_LevelsAndFirstPass == [](LevelInvariant) /\ [][LevelOrder]_vars

\* C22 witness: at level 0 the first pass has reached the second
\* streamline accepted at level -1, which has gained points.
C22_Witness ==
    /\ pc = "extend" /\ caller = "old" /\ level = 0 /\ minLevel < 0
    /\ extIdx >= 1 /\ extended
    /\ At(streamlines, extIdx).level = -1

\* the second pass of a level is running
InSecondPass == pc \in {"seeds", "scan", "perpEnd", "trySeed", "seedEnd"}
                  \/ (pc = "extend" /\ caller # "old")
\* the level is over: the seeds of the cache are exhausted
AtLevelEnd == pc = "seeds" /\ seedIdx >= Len(seedCache)
\* In the second pass the streamlines with an index below slStart are those
\* scanned in this level, and the running scan is at one that is not.
ScanInvariant ==
    InSecondPass =>
      /\ 0 <= slStart /\ slStart <= Len(streamlines)
      /\ pc \in {"scan", "perpEnd"} \/ (pc = "extend" /\ caller = "perp") =>
           (slStart <= sli /\ sli <= Len(streamlines))
      /\ pc = "trySeed" => slStart = Len(streamlines)
ScanOrder ==
    /\ (pc = "seeds" /\ pc' = "scan") => (sli' = slStart /\ pn' = 0)
    /\ (pc = "scan" /\ pc' # "trySeed") =>
         /\ sli' \in {sli, sli + 1}
         /\ sli' = sli + 1 => (pn >= Len(At(streamlines, sli).points) /\ pn' = 0)
    /\ (pc = "scan" /\ pc' = "trySeed") =>
         (sli >= Len(streamlines) /\ slStart' = Len(streamlines))
    /\ (pc = "perpEnd") => (sli' = sli /\ Len(streamlines') >= Len(streamlines))
    /\ slStart' # slStart =>
         \/ pc = "scan" /\ pc' = "trySeed"
         \/ pc = "extendOld" /\ pc' = "seeds" /\ slStart' = 0

\* C23 as stated: the above, and by the end of every level every
\* streamline accepted at an earlier level has been scanned in it.
C23_EveryStreamlineScannedEachLevel ==
    /\ ScanInvariant
    /\ AtLevelEnd =>
         \A s \in 1..Len(streamlines) : streamlines[s].level < level => s <= slStart

\* C23: within a level a scan starts at slStart, goes through the
\* streamlines one by one up to the end of the list as it is when the scan
\* gets there, and sets slStart to the length of the list, so that no
\* streamline is scanned twice in a level; slStart is 0 when the second
\* pass of a level begins, so that the scan for the first pending seed of
\* the level covers every streamline; a level without a pending seed scans
\* none.
C23_ScannedAtMostOncePerLevel ==
    /\ [](ScanInvariant)
    /\ [][ScanOrder]_vars
    /\ []((AtLevelEnd /\ Len(seedCache) > 0) =>
           \A s \in 1..Len(streamlines) : streamlines[s].level < level => s <= slStart)
    /\ []((AtLevelEnd /\ Len(seedCache) = 0) => slStart = 0)

\* C23 witness: the scan has reached a streamline that was accepted
\* during this very scan.
C23_Witness ==
    /\ pc = "scan" /\ sli < Len(streamlines) /\ sli > slStart
    /\ At(streamlines, sli).level = level
    /\ pn > 0

\* the accepted streamlines and the candidate being grown
AllStreamlines ==
    {streamlines[s] : s \in 1..Len(streamlines)} \cup {newSl[s] : s \in 1..Len(newSl)}
ChunkCounts(sl) ==
    /\ (Len(sl.points) - 1) % iSteps = 0
    /\ sl.seed_index % iSteps = 0
    /\ (sl.level = level /\ pc \notin {"new", "constructed"}) =>
         /\ (Len(sl.points) - 1) % (iSteps * levelFactor) = 0
         /\ sl.seed_index % (iSteps * levelFactor) = 0
\* the streamline addStreamline accepts in this transition has its seed and
\* its two end points among the entries of the grid
AcceptedEndsEntered ==
    (pc \in {"perpEnd", "seedEnd"} /\ Len(streamlines') > Len(streamlines)) =>
      LET sl == streamlines'[Len(streamlines')]
      IN  \A p \in {sl.points[1], sl.points[Len(sl.points)], At(sl.points, sl.seed_index)} :
            [point |-> p, streamIndex |-> sl.index] \in GridEntries'

\* C24: in every state every streamline has 1 + a multiple of iSteps points
\* and a seed_index that is a multiple of iSteps, the multiples being of
\* iSteps * levelFactor while the driver is at the level of the streamline;
\* and the entries addStreamline makes for a streamline include its seed and
\* its first and last point.
C24_ChunkCounts ==
    /\ [](\A sl \in AllStreamlines : ChunkCounts(sl))
    /\ [][AcceptedEndsEntered]_vars

\* C24 witness: an accepted streamline of level -1 with chunks of ten
\* points on both sides of its seed, which gained a chunk of five at level 0.
C24_Witness ==
    \E s \in 1..Len(streamlines) :
      /\ streamlines[s].level = -1 /\ level = 0
      /\ streamlines[s].seed_index > 0
      /\ (Len(streamlines[s].points) - 1) % (2 * iSteps) = iSteps
      /\ [point |-> At(streamlines[s].points, streamlines[s].seed_index),
          streamIndex |-> s - 1] \in GridEntries

\* the levels do not decrease from the seed of sl towards its two ends
LevelsRiseFromSeed(sl) ==
    \A n \in 1..(Len(sl.points) - 1) :
      IF n <= sl.seed_index
      THEN sl.points[n].level >= sl.points[n + 1].level
      ELSE sl.points[n].level <= sl.points[n + 1].level

\* C25: in every state, in every streamline, every point has a level from
\* the level of the streamline up to 0, and along the list the levels do
\* not decrease from the seed towards the first point and towards the last.
C25_LevelsRiseFromSeed ==
    \A sl \in AllStreamlines :
      /\ \A n \in 1..Len(sl.points) :
           sl.level <= sl.points[n].level /\ sl.points[n].level <= 0
      /\ LevelsRiseFromSeed(sl)

\* C25 witness: generate has returned a streamline of level -1 whose first
\* and last points are of level 0 and whose seed is of level -1.
C25_Witness ==
    /\ pc = "done"
    /\ \E s \in 1..Len(streamlines) :
         /\ streamlines[s].level = -1
         /\ streamlines[s].seed_index > 0
         /\ streamlines[s].points[1].level = 0
         /\ streamlines[s].points[Len(streamlines[s].points)].level = 0
         /\ At(streamlines[s].points, streamlines[s].seed_index).level = -1

EntryOwned(e) ==
    /\ e.streamIndex # None
    /\ e.streamIndex \in 0..(Len(streamlines) - 1)
    /\ At(streamlines, e.streamIndex).index = e.streamIndex
    /\ \E n \in 1..Len(At(streamlines, e.streamIndex).points) :
         At(streamlines, e.streamIndex).points[n] = e.point
\* a candidate streamline enters nothing into the grid while it is grown,
\* nor when it is rejected
CandidateLeavesGrid ==
    /\ (pc = "extend" /\ caller # "old") =>
         UNCHANGED <<pointsGrid, pointsGridCellWidthFactors>>
    /\ (pc \in {"perpEnd", "seedEnd"} /\ Len(newSl[1].points) <= 2) =>
         UNCHANGED <<pointsGrid, pointsGridCellWidthFactors, streamlines>>

\* C26: in every state every entry of the grid has the index of an accepted
\* streamline, never None, and its point is a point of that streamline;
\* a candidate enters nothing while it is grown or when it is rejected.
C26_EntriesOwned == [](\A e \in GridEntries : EntryOwned(e)) /\ [][CandidateLeavesGrid]_vars

\* C26 witness: a candidate that stayed at one point is about to be
\* rejected while the grid holds the entries of two accepted streamlines.
C26_Witness ==
    /\ pc \in {"perpEnd", "seedEnd"}
    /\ Len(newSl[1].points) <= 2
    /\ \E e1 \in GridEntries, e2 \in GridEntries : e1.streamIndex # e2.streamIndex

\* a perpendicular candidate of an accepted streamline that passes the
\* separation test of the current level
OffersCandidate(s) ==
    \E n \in 0..(Len(At(streamlines, s).points) - 1), side \in 0..1 :
        /\ n % (iSteps * levelFactor) = 0
        /\ isPointGood(newSeedAt(s, n, side), dSepEffective, None)
\* the scan and the creation of streamlines belong to a pending seed
InsideSeedLoop ==
    (pc \in {"scan", "perpEnd", "trySeed", "seedEnd"}) => seedIdx < Len(seedCache)
HarvestOnlyForSeed ==
    /\ Len(streamlines') > Len(streamlines) =>
         (pc \in {"perpEnd", "seedEnd"} /\ seedIdx < Len(seedCache))
    /\ (InSecondPass /\ Len(seedCache) = 0) =>
         (pc = "seeds" /\ pc' = "level" /\ streamlines' = streamlines)
    /\ (pc = "scan") => (sli >= slStart /\ slStart' >= slStart)
\* after the last pending seed the level is over, whatever it accepted
LastSeedEndsLevel ==
    /\ (seedIdx + 1 >= Len(seedCache) /\
          (pc = "seedEnd" \/ (pc = "trySeed" /\ pc' # "extend"))) =>
         /\ AtLevelEnd'
         /\ (Len(streamlines') > Len(streamlines) =>
               (slStart' = Len(streamlines) /\ Len(streamlines') = Len(streamlines) + 1))
    /\ AtLevelEnd => (pc' = "level" /\ streamlines' = streamlines)

\* C27: streamlines are created, and accepted streamlines scanned, only for a
\* pending seed: a level with an empty seedCache goes from the first pass to
\* the next level with its streamlines unchanged, and the step after the last
\* pending seed of a level ends the level, so that a streamline this seed made
\* (index slStart, the start of the next scan) is not scanned at that level.
C27_HarvestOnlyInSeedLoop ==
    [](InsideSeedLoop) /\ [][HarvestOnlyForSeed /\ LastSeedEndsLevel]_vars

\* the other case of C27: a level ends with an empty seedCache although an
\* accepted streamline offers a candidate
C27_EmptyCacheOffers ==
    /\ AtLevelEnd /\ Len(seedCache) = 0
    /\ \E s \in 0..(Len(streamlines) - 1) : OffersCandidate(s)

\* C27 witness: a level ends after its last pending seed was accepted; the
\* streamline it made is the last one, was not scanned (index slStart) and
\* offers a candidate.
C27_Witness ==
    /\ AtLevelEnd /\ Len(seedCache) > 0
    /\ slStart = Len(streamlines) - 1
    /\ At(streamlines, slStart).seed = At(seedCache, Len(seedCache) - 1)
    /\ At(streamlines, slStart).level = level
    /\ OffersCandidate(slStart)

====
